---- MODULE Spec2Model ----
(***************************************************************************)
(* Model of the EmailAgent backend: the FastAPI handlers of main.py, the   *)
(* EmailWorkflowOrchestrator / SecureEmailHandler / EmailAgentTelemetry    *)
(* classes of security.py and the GmailTools start-up authentication of    *)
(* agents.py.                                                              *)
(***************************************************************************)
EXTENDS Integers, Sequences, FiniteSets, TLC

VARIABLES
    encryption_key, \* SecureEmailHandler.encryption_key (security.py:12); 0 before it is drawn
    issued,         \* history: every (plaintext, token) pair encrypt has returned
    lastOp,         \* history: the last encrypt/decrypt call and its outcome
    phase,          \* "import" (main.py:13-21 running), "serving", "crashed"
    token_pickle,   \* what token.pickle holds (agents.py:30-50)
    authCalls,      \* history: how often GmailTools.authenticate has run
    agents,         \* what EmailWorkflowOrchestrator.agents is bound to
    vector_store,   \* what EmailWorkflowOrchestrator.vector_store is bound to
    req             \* the requests: handler position, results and call history

cryptoVars == <<encryption_key, issued, lastOp>>

appVars == <<phase, token_pickle, authCalls, agents, vector_store, req>>

vars == <<encryption_key, issued, lastOp, phase, token_pickle, authCalls, agents,
          vector_store, req>>

-----------------------------------------------------------------------------
(* Bounds *)

MaxStrLen == 1
MaxIssued == 2
MaxRequests == 2

-----------------------------------------------------------------------------
(* Python str / bytes: a str is a sequence of code points, bytes a sequence *)
(* of integers 0..255.                                                      *)

\* 'A' (one byte in UTF-8), U+00E9 (two bytes), U+D800 (a lone surrogate, which
\* Python's str can hold and UTF-8 cannot encode).
CodePoints == {65, 233, 55296}

RECURSIVE SeqsUpTo(_, _)
SeqsUpTo(S, n) ==
    IF n = 0 THEN {<<>>}
    ELSE LET shorter == SeqsUpTo(S, n - 1)
         IN  shorter \cup {Append(s, c) : s \in {t \in shorter : Len(t) = n - 1}, c \in S}

Strings == SeqsUpTo(CodePoints, MaxStrLen)

NoExc == [type |-> "", msg |-> ""]

IsSurrogate(c) == c >= 55296 /\ c <= 57343

EncodeCodePoint(c) ==
    IF c < 128 THEN <<c>>
    ELSE IF c < 2048 THEN <<192 + (c \div 64), 128 + (c % 64)>>
    ELSE <<224 + (c \div 4096), 128 + ((c \div 64) % 64), 128 + (c % 64)>>

RECURSIVE EncodeAll(_)
EncodeAll(s) ==
    IF s = <<>> THEN <<>> ELSE EncodeCodePoint(Head(s)) \o EncodeAll(Tail(s))

\* str.encode(): UTF-8, errors="strict"
StrEncode(s) ==
    IF \E i \in 1..Len(s) : IsSurrogate(s[i])
    THEN [ok |-> FALSE, bytes |-> <<>>,
          exc |-> [type |-> "UnicodeEncodeError", msg |-> "surrogates not allowed"]]
    ELSE [ok |-> TRUE, bytes |-> EncodeAll(s), exc |-> NoExc]

IsCont(b) == b >= 128 /\ b < 192

RECURSIVE DecodeAll(_)
\* the decoded code points, or <<-1>> appended where the bytes are not UTF-8
DecodeAll(b) ==
    IF b = <<>> THEN <<>>
    ELSE IF b[1] < 128 THEN <<b[1]>> \o DecodeAll(Tail(b))
    ELSE IF b[1] >= 194 /\ b[1] < 224 /\ Len(b) >= 2 /\ IsCont(b[2])
         THEN <<(b[1] - 192) * 64 + (b[2] - 128)>> \o DecodeAll(Tail(Tail(b)))
    ELSE IF b[1] >= 224 /\ b[1] < 240 /\ Len(b) >= 3 /\ IsCont(b[2]) /\ IsCont(b[3])
         THEN LET c == (b[1] - 224) * 4096 + (b[2] - 128) * 64 + (b[3] - 128)
              IN  IF c < 2048 \/ IsSurrogate(c) THEN <<-1>>
                  ELSE <<c>> \o DecodeAll(Tail(Tail(Tail(b))))
    ELSE <<-1>>

\* bytes.decode(): UTF-8, errors="strict"
BytesDecode(b) ==
    LET cps == DecodeAll(b)
    IN  IF \E i \in 1..Len(cps) : cps[i] = -1
        THEN [ok |-> FALSE, str |-> <<>>,
              exc |-> [type |-> "UnicodeDecodeError", msg |-> "invalid start byte"]]
        ELSE [ok |-> TRUE, str |-> cps, exc |-> NoExc]

-----------------------------------------------------------------------------
(* cryptography.fernet.Fernet, as the handler uses it: a keyed, randomised, *)
(* authenticated cipher over bytes.                                         *)

Keys == {3, 7}      \* Fernet.generate_key()
IVs  == {1, 2}      \* the random IV Fernet.encrypt draws per call

NoToken == [iv |-> 0, ct |-> <<>>, hmac |-> 0]

RECURSIVE SumSeq(_)
SumSeq(b) == IF b = <<>> THEN 0 ELSE Head(b) + SumSeq(Tail(b))

Mac(key, iv, ct) == (key * 31 + iv * 17 + SumSeq(ct) + Len(ct)) % 256

FernetEncrypt(key, iv, bytes) ==
    LET ct == [i \in 1..Len(bytes) |-> (bytes[i] + key + iv) % 256]
    IN  [iv |-> iv, ct |-> ct, hmac |-> Mac(key, iv, ct)]

FernetDecrypt(key, tok) ==
    IF Mac(key, tok.iv, tok.ct) # tok.hmac
    THEN [ok |-> FALSE, bytes |-> <<>>, exc |-> [type |-> "InvalidToken", msg |-> ""]]
    ELSE [ok |-> TRUE,
          bytes |-> [i \in 1..Len(tok.ct) |-> (tok.ct[i] + 256 - key - tok.iv) % 256],
          exc |-> NoExc]

-----------------------------------------------------------------------------
(* SecureEmailHandler *)

\* encrypt_sensitive_data: self.cipher_suite.encrypt(data.encode())
encrypt_sensitive_data(key, iv, data) ==
    LET enc == StrEncode(data)
    IN  IF ~enc.ok THEN [ok |-> FALSE, tok |-> NoToken, exc |-> enc.exc]
        ELSE [ok |-> TRUE, tok |-> FernetEncrypt(key, iv, enc.bytes), exc |-> NoExc]

\* decrypt_sensitive_data: self.cipher_suite.decrypt(encrypted_data).decode()
decrypt_sensitive_data(key, tok) ==
    LET dec == FernetDecrypt(key, tok)
    IN  IF ~dec.ok THEN [ok |-> FALSE, str |-> <<>>, exc |-> dec.exc]
        ELSE BytesDecode(dec.bytes)

NoOp == [op |-> "none", data |-> <<>>, tok |-> NoToken, ok |-> TRUE,
         out |-> <<>>, exc |-> NoExc]

-----------------------------------------------------------------------------
(* Values the handlers work with *)

Slots == 1..MaxRequests

Priorities == {"urgent", "followup", "normal"}

\* analyze_priority returns whatever the agent-backed classifier hands back,
\* unchecked: any string, of which "spam" stands for those outside the enumeration.
ClassifierOutputs == Priorities \cup {"spam"}

Exc(t, m) == [type |-> t, msg |-> m]

ClassificationError == Exc("ClassificationError", "priority step failed")
RetrievalError      == Exc("RetrievalError", "context step failed")
GenerationError     == Exc("GenerationError", "response path failed")
CrewError           == Exc("CrewError", "crew run failed")
OAuthError          == Exc("OAuthError", "client_secrets.json not found")
StrHasNoGet         == Exc("AttributeError", "'str' object has no attribute 'get'")

\* str(e)
StrOf(e) == e.msg

HasAttrAlways(obj) == TRUE

\* getattr on the objects the orchestrator is handed: a dict of agents has no
\* attribute priority_sorter / response_drafter, None has no retrieve_context.
HasAttr(obj) == obj \in {"namespace", "store"}

AttributeErrorOf(obj) ==
    IF obj = "dict" THEN Exc("AttributeError", "'dict' object has no attribute 'priority_sorter'")
    ELSE Exc("AttributeError", "'NoneType' object has no attribute 'retrieve_context'")

\* WorkflowResult, or the exception process_incoming_email left with
NoWf == [kind |-> "none", status |-> "", priority |-> "", response |-> "", exc |-> NoExc]

\* the HTTP response: status 0 while the request is open
NoHttp == [status |-> 0, detail |-> "", keys |-> {}, workflow |-> NoWf,
           sensitive |-> NoToken]

IdleReq == [endpoint |-> "none", pc |-> "idle", priority |-> "", trace |-> <<>>,
            wf |-> NoWf, http |-> NoHttp, fault |-> NoExc]

\* history: the exception a step raised, recorded where it is raised
Fault(q, e) == [q EXCEPT !.fault = e]

\* what crew.kickoff() hands back: a plain str, or a dict whose
\* "sensitive_content" is missing/empty (<<>>) or a str
SensitiveContents == {s \in Strings : Len(s) <= 1}

CrewOutcomes ==
    {[ok |-> FALSE, type |-> "", sensitive |-> <<>>, exc |-> CrewError]}
    \cup {[ok |-> TRUE, type |-> "str", sensitive |-> <<>>, exc |-> NoExc]}
    \cup {[ok |-> TRUE, type |-> "dict", sensitive |-> s, exc |-> NoExc] :
            s \in SensitiveContents}

\* what an awaited collaborator call comes back with
Returned(v) == [ok |-> TRUE, value |-> v, exc |-> NoExc]
Raised(e)   == [ok |-> FALSE, value |-> "", exc |-> e]

-----------------------------------------------------------------------------
(* main.py: the except clause shared by the three handlers *)

ApiExceptNoLog(q, e) ==
    [q EXCEPT !.trace = Append(@, "HTTPException"),
              !.http = [NoHttp EXCEPT !.status = 500, !.detail = StrOf(e)],
              !.pc = "done"]

\* telemetry.log_error(...); raise HTTPException(status_code=500, detail=str(e))
ApiExcept(q, e) ==
    [q EXCEPT !.trace = @ \o <<"api.log_error", "HTTPException">>,
              !.http = [NoHttp EXCEPT !.status = 500, !.detail = StrOf(e)],
              !.pc = "done"]

-----------------------------------------------------------------------------
(* security.py: EmailWorkflowOrchestrator.process_incoming_email *)

OrchExceptLogsTwice(q, e) ==
    [q EXCEPT !.trace = @ \o <<"orch.log_error", "orch.log_error", "orch.raise">>,
              !.wf = [NoWf EXCEPT !.kind = "raised", !.exc = e]]

\* except Exception as e: ...; self.telemetry.log_error(...); raise
OrchExcept(q, e) ==
    [q EXCEPT !.trace = @ \o <<"orch.log_error", "orch.raise">>,
              !.wf = [NoWf EXCEPT !.kind = "raised", !.exc = e]]

\* the re-raised exception reaches send_email's except clause
OrchFail(q, e) ==
    LET q1 == OrchExcept(Fault(q, e), e)
    IN  ApiExcept(q1, q1.wf.exc)

\* analyze_priority: self.agents.priority_sorter.analyze(email)
StartClassify(q) ==
    IF ~HasAttr(agents) THEN OrchFail(q, AttributeErrorOf(agents))
    ELSE [q EXCEPT !.trace = Append(@, "priority_sorter.analyze"),
                   !.pc = "await_classify"]

AfterClassifySkipsRetrieval(q, p) ==
    [q EXCEPT !.priority = p,
              !.trace = Append(@, "response_drafter.generate_response"),
              !.pc = "await_respond"]

\* priority = <classifier's value>; self.vector_store.retrieve_context(...)
AfterClassify(q, p) ==
    LET q1 == [q EXCEPT !.priority = p]
    IN  IF ~HasAttr(vector_store) THEN OrchFail(q1, AttributeErrorOf(vector_store))
        ELSE [q1 EXCEPT !.trace = Append(@, "vector_store.retrieve_context"),
                        !.pc = "await_retrieve"]

ResponsePathDefaultFollowup(p) ==
    IF p = "urgent" THEN "response_drafter.generate_immediate_response"
    ELSE IF p = "normal" THEN "response_drafter.generate_response"
    ELSE "response_drafter.schedule_followup"

ResponsePathSwapped(p) ==
    IF p = "urgent" THEN "response_drafter.schedule_followup"
    ELSE IF p = "followup" THEN "response_drafter.generate_immediate_response"
    ELSE "response_drafter.generate_response"

\* if priority == "urgent": ... elif priority == "followup": ... else: ...
ResponsePath(p) ==
    IF p = "urgent" THEN "response_drafter.generate_immediate_response"
    ELSE IF p = "followup" THEN "response_drafter.schedule_followup"
    ELSE "response_drafter.generate_response"

\* what the chosen response_drafter method returns on success
ResponseOf(path) ==
    IF path = "response_drafter.generate_immediate_response" THEN "immediate response"
    ELSE IF path = "response_drafter.schedule_followup" THEN "followup scheduled"
    ELSE "standard response"

\* context = <retrieved>; the branch on priority
AfterRetrieve(q) ==
    [q EXCEPT !.trace = Append(@, ResponsePath(q.priority)), !.pc = "await_respond"]

\* return {"status": "success", "priority": priority, "response": response}
AfterRespond(q, response) ==
    [q EXCEPT !.trace = Append(@, "orch.return"),
              !.wf = [NoWf EXCEPT !.kind = "returned", !.status = "success",
                                  !.priority = q.priority,
                                  !.response = response]]

-----------------------------------------------------------------------------
(* main.py: the handlers *)

\* read_emails: crew of reader and analyzer, then the encryption of
\* result["sensitive_content"] when result.get(...) is truthy
read_emails(q, ko, iv) ==
    LET q1 == [q EXCEPT !.endpoint = "read",
                        !.trace = <<"log_email_interaction", "kickoff.reader_analyzer">>]
    IN  IF ~ko.ok THEN ApiExcept(Fault(q1, ko.exc), ko.exc)
        ELSE IF ko.type = "str" THEN ApiExcept(Fault(q1, StrHasNoGet), StrHasNoGet)
        ELSE IF ko.sensitive = <<>>
             THEN [q1 EXCEPT !.trace = Append(@, "return"), !.pc = "done",
                             !.http = [NoHttp EXCEPT !.status = 200, !.keys = {"result"}]]
        ELSE LET enc == encrypt_sensitive_data(encryption_key, iv, ko.sensitive)
                 q2  == [q1 EXCEPT !.trace = Append(@, "encrypt_sensitive_data")]
             IN  IF ~enc.ok THEN ApiExcept(Fault(q2, enc.exc), enc.exc)
                 ELSE [q2 EXCEPT !.trace = Append(@, "return"), !.pc = "done",
                                 !.http = [NoHttp EXCEPT !.status = 200,
                                                         !.keys = {"result"},
                                                         !.sensitive = enc.tok]]

\* analyze_conversation: crew of the analyzer
analyze_conversation(q, ko) ==
    LET q1 == [q EXCEPT !.endpoint = "analyze",
                        !.trace = <<"log_email_interaction", "kickoff.analyzer">>]
    IN  IF ~ko.ok THEN ApiExcept(Fault(q1, ko.exc), ko.exc)
        ELSE [q1 EXCEPT !.trace = Append(@, "return"), !.pc = "done",
                        !.http = [NoHttp EXCEPT !.status = 200, !.keys = {"result"}]]

SendEmailEntryCrewFirst(q) ==
    StartClassify([q EXCEPT !.endpoint = "send",
                            !.trace = <<"log_email_interaction", "kickoff.composer">>])

\* send_email up to its first suspension inside process_incoming_email
SendEmailEntry(q) ==
    StartClassify([q EXCEPT !.endpoint = "send", !.trace = <<"log_email_interaction">>])

\* send_email once process_incoming_email has returned: the composer crew
SendEmailFinish(q, ko) ==
    LET q1 == [q EXCEPT !.trace = Append(@, "kickoff.composer")]
    IN  IF ~ko.ok THEN ApiExcept(Fault(q1, ko.exc), ko.exc)
        ELSE [q1 EXCEPT !.trace = Append(@, "return"), !.pc = "done",
                        !.http = [NoHttp EXCEPT !.status = 200,
                                                !.keys = {"result", "workflow"},
                                                !.workflow = q.wf]]

\* /auth/login and /auth/callback: the Flow of the provider's SDK; an exception
\* becomes a 400
oauth_endpoint(q, ep, ok) ==
    [q EXCEPT !.endpoint = ep, !.pc = "done",
              !.trace = IF ok THEN <<"Flow", "return">> ELSE <<"Flow", "HTTPException">>,
              !.fault = IF ok THEN NoExc ELSE OAuthError,
              !.http = IF ok THEN [NoHttp EXCEPT !.status = 200, !.keys = {"message"}]
                       ELSE [NoHttp EXCEPT !.status = 400, !.detail = StrOf(OAuthError)]]

-----------------------------------------------------------------------------
(* agents.py: GmailTools *)

TokenStates == {"absent", "valid", "expired_refreshable", "expired"}

\* authenticate(): load token.pickle if it exists; unless the credentials are
\* valid, refresh them (expired, with a refresh token) or run the interactive
\* flow, and write token.pickle; `ok` is whether that refresh or flow succeeds.
\* The file after the call.
authenticate(file, ok) ==
    IF file = "valid" THEN [ok |-> TRUE, file |-> file]
    ELSE IF ok THEN [ok |-> TRUE, file |-> "valid"]
    ELSE [ok |-> FALSE, file |-> file]

AuthCallsAfterToolUseReauth(n) == n + 1

\* GmailTools.read_emails / send_email, the tools a crew run may call: they use
\* self.service and never call authenticate
AuthCallsAfterToolUse(n) == n

-----------------------------------------------------------------------------
(* The application *)

Init ==
    /\ phase = "import"
    /\ token_pickle \in TokenStates
    /\ authCalls = 0
    /\ agents = "unbound"
    /\ vector_store = "unbound"
    /\ req = [r \in Slots |-> IdleReq]
    /\ encryption_key = 0
    /\ issued = {}
    /\ lastOp = NoOp

\* main.py:16-21, the module's import: create_jared_crew() (whose EmailTools()
\* builds the one GmailTools, which authenticates), SecureEmailHandler(),
\* EmailWorkflowOrchestrator(agents, vector_store). main.py binds the dict
\* create_jared_crew returns and None; "namespace" and "store" are collaborators
\* with the attributes process_incoming_email uses.
Startup(a, v, key, ok) ==
    /\ phase = "import"
    /\ LET auth == authenticate(token_pickle, ok)
       IN  /\ authCalls' = authCalls + 1
           /\ token_pickle' = auth.file
           /\ IF auth.ok
              THEN /\ phase' = "serving"
                   /\ encryption_key' = key
                   /\ agents' = a
                   /\ vector_store' = v
              ELSE /\ phase' = "crashed"
                   /\ UNCHANGED <<encryption_key, agents, vector_store>>
    /\ UNCHANGED <<issued, lastOp, req>>

Serve(r, q) ==
    /\ req' = [req EXCEPT ![r] = q]
    /\ UNCHANGED <<phase, token_pickle, agents, vector_store, cryptoVars>>

ReadEmails(r, ko, iv) ==
    /\ phase = "serving" /\ req[r].pc = "idle"
    /\ authCalls' = AuthCallsAfterToolUse(authCalls)
    /\ Serve(r, read_emails(req[r], ko, iv))

AnalyzeConversation(r, ko) ==
    /\ phase = "serving" /\ req[r].pc = "idle"
    /\ authCalls' = AuthCallsAfterToolUse(authCalls)
    /\ Serve(r, analyze_conversation(req[r], ko))

OAuthEndpoint(r, ep, ok) ==
    /\ phase = "serving" /\ req[r].pc = "idle"
    /\ UNCHANGED authCalls
    /\ Serve(r, oauth_endpoint(req[r], ep, ok))

SendEmail(r) ==
    /\ phase = "serving" /\ req[r].pc = "idle"
    /\ UNCHANGED authCalls
    /\ Serve(r, SendEmailEntry(req[r]))

\* the awaited classifier call comes back
ClassifyReturns(r, out) ==
    /\ req[r].pc = "await_classify"
    /\ UNCHANGED authCalls
    /\ Serve(r, IF out.ok THEN AfterClassify(req[r], out.value)
                ELSE OrchFail(req[r], out.exc))

\* the awaited vector-store call comes back
RetrieveReturns(r, out) ==
    /\ req[r].pc = "await_retrieve"
    /\ UNCHANGED authCalls
    /\ Serve(r, IF out.ok THEN AfterRetrieve(req[r]) ELSE OrchFail(req[r], out.exc))

\* the awaited response path comes back; on success send_email goes on to the
\* composer crew, which never suspends
RespondReturns(r, ok, ko) ==
    /\ req[r].pc = "await_respond"
    /\ authCalls' = IF ok THEN AuthCallsAfterToolUse(authCalls) ELSE authCalls
    /\ Serve(r, IF ok
                THEN SendEmailFinish(
                         AfterRespond(req[r], ResponseOf(req[r].trace[Len(req[r].trace)])), ko)
                ELSE OrchFail(req[r], GenerationError))

Next ==
    \/ \E a \in {"dict", "namespace"}, v \in {"None", "store"}, key \in Keys,
          ok \in BOOLEAN : Startup(a, v, key, ok)
    \/ \E r \in Slots, ko \in CrewOutcomes, iv \in IVs : ReadEmails(r, ko, iv)
    \/ \E r \in Slots, ko \in CrewOutcomes : AnalyzeConversation(r, ko)
    \/ \E r \in Slots, ep \in {"auth_login", "auth_callback"}, ok \in BOOLEAN :
          OAuthEndpoint(r, ep, ok)
    \/ \E r \in Slots : SendEmail(r)
    \/ \E r \in Slots, out \in {Returned(p) : p \in ClassifierOutputs}
                               \cup {Raised(ClassificationError)} : ClassifyReturns(r, out)
    \/ \E r \in Slots, out \in {Returned("context"), Raised(RetrievalError)} :
          RetrieveReturns(r, out)
    \/ \E r \in Slots, ok \in BOOLEAN, ko \in CrewOutcomes : RespondReturns(r, ok, ko)

Spec == Init /\ [][Next]_vars

-----------------------------------------------------------------------------
(* A SecureEmailHandler on its own, called any number of times *)

\* SecureEmailHandler.__init__: one key, drawn once
InitCrypto ==
    /\ encryption_key \in Keys
    /\ issued = {}
    /\ lastOp = NoOp
    /\ phase = "import"
    /\ token_pickle = "absent"
    /\ authCalls = 0
    /\ agents = "unbound"
    /\ vector_store = "unbound"
    /\ req = [r \in Slots |-> IdleReq]

KeyRegenerated(key) == CHOOSE k \in Keys : k # key

\* neither method assigns self.encryption_key or self.cipher_suite
KeyAfterCall(key) == key

Encrypt(data, iv) ==
    LET r == encrypt_sensitive_data(encryption_key, iv, data)
    IN  /\ r.ok => Cardinality(issued \cup {[data |-> data, tok |-> r.tok]}) <= MaxIssued
        /\ issued' = IF r.ok THEN issued \cup {[data |-> data, tok |-> r.tok]} ELSE issued
        /\ lastOp' = [op |-> "encrypt", data |-> data, tok |-> r.tok, ok |-> r.ok,
                      out |-> <<>>, exc |-> r.exc]
        /\ encryption_key' = KeyAfterCall(encryption_key)
        /\ UNCHANGED appVars

\* a token damaged on the way back
Tampered(tok) == [tok EXCEPT !.hmac = (tok.hmac + 1) % 256]

Decrypt(tok) ==
    LET r == decrypt_sensitive_data(encryption_key, tok)
    IN  /\ lastOp' = [op |-> "decrypt", data |-> <<>>, tok |-> tok, ok |-> r.ok,
                      out |-> r.str, exc |-> r.exc]
        /\ encryption_key' = KeyAfterCall(encryption_key)
        /\ UNCHANGED <<issued, appVars>>

NextCrypto ==
    \/ \E data \in Strings, iv \in IVs : Encrypt(data, iv)
    \/ \E e \in issued, damaged \in BOOLEAN :
          Decrypt(IF damaged THEN Tampered(e.tok) ELSE e.tok)

SpecCrypto == InitCrypto /\ [][NextCrypto]_vars

-----------------------------------------------------------------------------
(* Properties *)

Count(seq, e) == Cardinality({i \in 1..Len(seq) : seq[i] = e})

\* e occurs in seq, and first occurs before the first f
Before(seq, e, f) ==
    \E i \in 1..Len(seq) : seq[i] = e /\ \A j \in 1..i : seq[j] # f

Immediate == "response_drafter.generate_immediate_response"
Followup  == "response_drafter.schedule_followup"
Standard  == "response_drafter.generate_response"

PathEvents == {Immediate, Followup, Standard}

\* the path the specification assigns to a priority
SpecifiedPath(p) ==
    CASE p = "urgent" -> Immediate [] p = "followup" -> Followup [] OTHER -> Standard

\* the collaborator calls process_incoming_email has made for a request, in order
IsOrchCall(e) ==
    e \in PathEvents \cup {"priority_sorter.analyze", "vector_store.retrieve_context"}

OrchCalls(q) == SelectSeq(q.trace, IsOrchCall)

\* the exceptions that arise inside process_incoming_email
OrchFaults ==
    {ClassificationError, RetrievalError, GenerationError,
     AttributeErrorOf("dict"), AttributeErrorOf("None")}

\* the request's retrieval has succeeded and its response path is running or
\* has succeeded
PathTaken(q) ==
    /\ q.endpoint = "send"
    /\ \/ q.pc = "await_respond"
       \/ q.pc = "done" /\ q.fault \notin OrchFaults

OrchSucceeded(q) == q.endpoint = "send" /\ q.pc = "done" /\ q.fault \notin OrchFaults

\* C1: for a priority in {urgent, followup, normal}, when retrieval and
\* generation succeed, exactly the response path of that priority is invoked,
\* exactly once, the other two never, and the result returned has status
\* "success" and that priority.
C1_DispatchByPriority ==
    \A r \in Slots :
        LET q == req[r]
        IN  q.priority \in Priorities =>
              /\ PathTaken(q) =>
                   \A e \in PathEvents :
                       Count(q.trace, e) = IF e = SpecifiedPath(q.priority) THEN 1 ELSE 0
              /\ OrchSucceeded(q) =>
                   /\ q.wf.kind = "returned"
                   /\ q.wf.status = "success"
                   /\ q.wf.priority = q.priority

C1_Witness ==
    \E r \in Slots :
        /\ OrchSucceeded(req[r])
        /\ req[r].priority = "followup"
        /\ Count(req[r].trace, Followup) = 1

\* C2: when classify, retrieve or the response path raises, whatever the
\* priority, process_incoming_email leaves with that same exception, returns
\* no WorkflowResult, has invoked no step twice, and has called log_error
\* exactly once, before re-raising.
C2_FailsAtomically ==
    \A r \in Slots :
        LET q == req[r]
        IN  (q.endpoint = "send" /\ q.fault \in OrchFaults) =>
              /\ q.wf.kind = "raised"
              /\ q.wf.exc = q.fault
              /\ q.wf.status # "success"
              /\ Count(q.trace, "orch.return") = 0
              /\ Count(q.trace, "orch.log_error") = 1
              /\ Count(q.trace, "orch.raise") = 1
              /\ Before(q.trace, "orch.log_error", "orch.raise")
              /\ \A i, j \in 1..Len(OrchCalls(q)) :
                     OrchCalls(q)[i] = OrchCalls(q)[j] => i = j

C2_Witness ==
    \E r \in Slots :
        /\ req[r].fault = RetrievalError
        /\ req[r].priority = "urgent"
        /\ req[r].wf.kind = "raised"

\* C3: the collaborator calls of one process_incoming_email call are classify,
\* then retrieve, then one response path, each begun only once the one before
\* has returned; after a step fails no later step is invoked.
C3_SequentialSteps ==
    \A r \in Slots :
        LET q == req[r]
            calls == OrchCalls(q)
        IN  /\ Len(calls) <= 3
            /\ Len(calls) >= 1 => calls[1] = "priority_sorter.analyze"
            /\ Len(calls) >= 2 => calls[2] = "vector_store.retrieve_context" /\ q.priority # ""
            /\ Len(calls) >= 3 => calls[3] \in PathEvents
            /\ q.pc = "await_classify" => Len(calls) = 1 /\ q.priority = ""
            /\ q.pc = "await_retrieve" => Len(calls) = 2
            /\ q.pc = "await_respond" => Len(calls) = 3
            /\ q.fault = AttributeErrorOf("dict") => Len(calls) = 0
            /\ q.fault \in {ClassificationError, AttributeErrorOf("None")} => Len(calls) = 1
            /\ q.fault = RetrievalError => Len(calls) = 2

C3_Witness ==
    \E r1, r2 \in Slots :
        /\ req[r1].pc = "await_respond"
        /\ req[r2].fault = RetrievalError /\ req[r2].pc = "done"

\* C4: every WorkflowResult returned by process_incoming_email carries a
\* priority that is one of urgent, followup, normal, whatever the classifier
\* returned.
C4_PriorityInEnumeration ==
    \A r \in Slots :
        req[r].wf.kind = "returned" => req[r].wf.priority \in Priorities

\* C5: /send-email kicks the composer crew off only after
\* process_incoming_email has returned a WorkflowResult for that request, and
\* a successful response holds the crew's result and that WorkflowResult.
C5_WorkflowThenCrew ==
    \A r \in Slots :
        LET q == req[r]
        IN  q.endpoint = "send" =>
              /\ Count(q.trace, "kickoff.composer") >= 1 =>
                   /\ q.wf.kind = "returned"
                   /\ Before(q.trace, "orch.return", "kickoff.composer")
              /\ q.http.status = 200 =>
                   /\ q.http.keys = {"result", "workflow"}
                   /\ q.http.workflow = q.wf
                   /\ q.wf.kind = "returned"
                   /\ Count(q.trace, "kickoff.composer") = 1

C5_Witness ==
    \E r \in Slots :
        /\ req[r].endpoint = "send"
        /\ req[r].http.status = 200
        /\ req[r].http.workflow.status = "success"

ApiEndpoints == {"read", "send", "analyze"}

\* C6: on /read-emails, /send-email and /analyze-conversation an exception
\* raised while handling the request ends it as a 500 whose detail is the
\* exception's message, log_error having been called before the 500 is raised;
\* a request that saw a failure returns no success body.
C6_FailureIs500 ==
    \A r \in Slots :
        LET q == req[r]
        IN  q.endpoint \in ApiEndpoints =>
              /\ q.fault # NoExc =>
                   /\ q.pc = "done"
                   /\ q.http.status = 500
                   /\ q.http.detail = q.fault.msg
                   /\ q.http.keys = {}
                   /\ Count(q.trace, "api.log_error") = 1
                   /\ Before(q.trace, "api.log_error", "HTTPException")
                   /\ q.trace[Len(q.trace)] = "HTTPException"
              /\ q.http.status = 200 => q.fault = NoExc

C6_Witness ==
    /\ \E r \in Slots :
        /\ req[r].endpoint = "read"
        /\ req[r].fault.type = "UnicodeEncodeError"
        /\ req[r].http.status = 500
    /\ \E r \in Slots :
        /\ req[r].endpoint = "send"
        /\ req[r].fault = GenerationError
        /\ req[r].http.status = 500

Encodable(s) == \A i \in 1..Len(s) : ~IsSurrogate(s[i])

\* C7, for the strings that have a UTF-8 encoding: encrypt returns a
\* token, and every token the handler has returned decrypts, on that handler,
\* to the string it was made from, however many calls lie between.
C7_RoundTripEncodable ==
    /\ \A e \in issued :
          decrypt_sensitive_data(encryption_key, e.tok) =
              [ok |-> TRUE, str |-> e.data, exc |-> NoExc]
    /\ (lastOp.op = "encrypt" /\ Encodable(lastOp.data)) =>
          /\ lastOp.ok
          /\ [data |-> lastOp.data, tok |-> lastOp.tok] \in issued
    /\ lastOp.op = "decrypt" =>
          \A e \in issued : e.tok = lastOp.tok => lastOp.ok /\ lastOp.out = e.data

C7_Witness ==
    /\ Cardinality(issued) = MaxIssued
    /\ lastOp.op = "decrypt" /\ lastOp.ok
    /\ Len(lastOp.out) = MaxStrLen
    /\ \E i \in 1..Len(lastOp.out) : lastOp.out[i] > 127

\* C7, for every string: encrypt(s) returns a token that decrypts to s.
C7_RoundTripEveryString ==
    lastOp.op = "encrypt" =>
        /\ lastOp.ok
        /\ decrypt_sensitive_data(encryption_key, lastOp.tok).str = lastOp.data

\* C8: GmailTools.authenticate runs exactly once, at start-up; while requests
\* are served, however they interleave, no handler step runs it again or
\* changes the token file.
C8_AuthenticatesOnce ==
    /\ [](authCalls <= 1 /\ (phase = "serving" => authCalls = 1))
    /\ [][phase = "serving" => (authCalls' = authCalls /\ token_pickle' = token_pickle)]_vars

C8_Witness ==
    /\ authCalls = 1
    /\ \E r1, r2 \in Slots :
        /\ r1 # r2
        /\ req[r1].pc = "await_retrieve"
        /\ req[r2].endpoint = "read" /\ req[r2].http.status = 200

\* C9: when the classifier returns anything but "urgent" or "followup", values
\* outside the enumeration included, the standard path is taken, neither
\* other path is invoked, and the call returns a result with status "success".
C9_DefaultsToStandardPath ==
    \A r \in Slots :
        LET q == req[r]
        IN  (q.priority \notin {"", "urgent", "followup"}) =>
              /\ PathTaken(q) =>
                   /\ Count(q.trace, Standard) = 1
                   /\ Count(q.trace, Immediate) = 0
                   /\ Count(q.trace, Followup) = 0
              /\ OrchSucceeded(q) => q.wf.kind = "returned" /\ q.wf.status = "success"

C9_Witness ==
    \E r \in Slots :
        /\ req[r].priority = "spam"
        /\ OrchSucceeded(req[r])
        /\ req[r].wf.status = "success"

MainWiring == agents = "dict" /\ vector_store = "None"

\* C10: as main.py wires the orchestrator (the agent dict, no vector store),
\* every /send-email request fails inside process_incoming_email before a
\* response path runs: it ends as a 500, the composer crew is never kicked
\* off, and none returns {result, workflow}.
C10_SendEmailAlwaysFails ==
    MainWiring =>
        \A r \in Slots :
            LET q == req[r]
            IN  q.endpoint = "send" =>
                  /\ q.pc = "done"
                  /\ q.http.status = 500
                  /\ q.wf.kind = "raised"
                  /\ q.fault \in OrchFaults
                  /\ \A e \in PathEvents : Count(q.trace, e) = 0
                  /\ Count(q.trace, "kickoff.composer") = 0
                  /\ q.http.keys = {}

C10_Witness ==
    /\ MainWiring
    /\ \E r \in Slots : req[r].endpoint = "send" /\ req[r].http.status = 500

====
